---- MODULE Spec2Model ----
(***************************************************************************)
(* Model of detector_ashish_gahukar.py: the PII detection-and-masking      *)
(* engine (detect_and_mask) and the batch loop of main.                    *)
(*                                                                         *)
(* A Python string is a sequence of one-character strings.  A JSON value   *)
(* is a tagged record: [t |-> "str", s |-> chars], [t |-> "num", s |->     *)
(* decimal digits] or [t |-> "null", s |-> <<>>].  A record (dict) is a    *)
(* function from keys (character sequences) to values.                     *)
(***************************************************************************)
EXTENDS Integers, Sequences, FiniteSets, TLC

\* ------------------------------------------------------------------------
\* Character classes used by the patterns of lines 5-10
\* ------------------------------------------------------------------------
Digit == {"0", "1", "2", "3", "4", "5", "6", "7", "8", "9"}

Lower == {"a", "b", "c", "d", "e", "f", "g", "h", "i", "j", "k", "l", "m",
          "n", "o", "p", "q", "r", "s", "t", "u", "v", "w", "x", "y", "z"}

Upper == {"A", "B", "C", "D", "E", "F", "G", "H", "I", "J", "K", "L", "M",
          "N", "O", "P", "Q", "R", "S", "T", "U", "V", "W", "X", "Y", "Z"}

Letter == Lower \cup Upper

Alnum == Letter \cup Digit

\* \w of Python's re for the characters used here
Word == Alnum \cup {"_"}

\* [A-Za-z0-9._%+-]
EmailLocalCls == Alnum \cup {".", "_", "%", "+", "-"}

\* [A-Za-z0-9.-]
EmailDomainCls == Alnum \cup {".", "-"}

\* [A-Za-z0-9._%-]
UpiUserCls == Alnum \cup {".", "_", "%", "-"}

\* \b before position i (1 .. Len(s)+1): exactly one side is a word character
IsB(s, i) ==
    LET before == i > 1 /\ i - 1 <= Len(s) /\ s[i - 1] \in Word
        after == i >= 1 /\ i <= Len(s) /\ s[i] \in Word
    IN before /= after

\* first position >= i whose character is outside class C (Len(s)+1 if none):
\* the end of a greedy run of C that starts at i
RunEnd(s, i, C) ==
    LET stops == {j \in i..Len(s) : s[j] \notin C}
    IN IF stops = {} THEN Len(s) + 1
       ELSE CHOOSE j \in stops : \A k \in stops : j <= k

\* \b(\d{n})\b at i: position after the match, 0 when there is none
DigitsMatchEnd(s, i, n) ==
    IF /\ IsB(s, i)
       /\ i + n - 1 <= Len(s)
       /\ \A j \in i..(i + n - 1) : s[j] \in Digit
       /\ IsB(s, i + n)
    THEN i + n ELSE 0

\* PASSPORT_RE = \b([A-Z]{1}\d{7})\b with re.I
PassportMatchEnd(s, i) ==
    IF /\ IsB(s, i)
       /\ i + 7 <= Len(s)
       /\ s[i] \in Letter
       /\ \A j \in (i + 1)..(i + 7) : s[j] \in Digit
       /\ IsB(s, i + 8)
    THEN i + 8 ELSE 0

\* position after "\d{1,3}\." at i, 0 when it does not match
OctetDotEnd(s, i) ==
    IF i = 0 THEN 0
    ELSE LET e == RunEnd(s, i, Digit)
         IN IF e - i >= 1 /\ e - i <= 3 /\ e <= Len(s) /\ s[e] = "."
            THEN e + 1 ELSE 0

\* IPV4_RE = \b((?:\d{1,3}\.){3}\d{1,3})\b
Ipv4MatchEnd(s, i) ==
    IF ~IsB(s, i) THEN 0
    ELSE LET p == OctetDotEnd(s, OctetDotEnd(s, OctetDotEnd(s, i)))
         IN IF p = 0 THEN 0
            ELSE LET e == RunEnd(s, p, Digit)
                 IN IF e - p >= 1 /\ e - p <= 3 /\ IsB(s, e) THEN e ELSE 0

\* EMAIL_RE = \b([A-Za-z0-9._%+-]+)@([A-Za-z0-9.-]+\.[A-Za-z]{2,})\b
\* The local part is the greedy run up to "@".  The domain backtracks from the
\* longest run to the rightmost "." that is followed by a run of >= 2 letters
\* ending at a word boundary.
EmailDots(s, d0) ==
    LET dEnd == RunEnd(s, d0, EmailDomainCls)
    IN {p \in (d0 + 1)..(dEnd - 1) :
           /\ s[p] = "."
           /\ RunEnd(s, p + 1, Letter) - (p + 1) >= 2
           /\ IsB(s, RunEnd(s, p + 1, Letter))}

EmailMatchEnd(s, i) ==
    IF ~IsB(s, i) THEN 0
    ELSE LET at == RunEnd(s, i, EmailLocalCls)
         IN IF ~(at - i >= 1 /\ at <= Len(s) /\ s[at] = "@") THEN 0
            ELSE LET dots == EmailDots(s, at + 1)
                 IN IF dots = {} THEN 0
                    ELSE LET p == CHOOSE q \in dots : \A r \in dots : r <= q
                         IN RunEnd(s, p + 1, Letter)

\* UPI_RE = \b([A-Za-z0-9._%-]{2,})@([A-Za-z0-9]{2,})\b with re.I
UpiMatchEnd(s, i) ==
    IF ~IsB(s, i) THEN 0
    ELSE LET at == RunEnd(s, i, UpiUserCls)
         IN IF ~(at - i >= 2 /\ at <= Len(s) /\ s[at] = "@") THEN 0
            ELSE LET e == RunEnd(s, at + 1, Alnum)
                 IN IF e - (at + 1) >= 2 /\ IsB(s, e) THEN e ELSE 0

\* the compiled patterns, by name
MatchEnd(re, s, i) ==
    CASE re = "PHONE_RE" -> DigitsMatchEnd(s, i, 10)
      [] re = "AADHAR_RE" -> DigitsMatchEnd(s, i, 12)
      [] re = "PASSPORT_RE" -> PassportMatchEnd(s, i)
      [] re = "EMAIL_RE" -> EmailMatchEnd(s, i)
      [] re = "UPI_RE" -> UpiMatchEnd(s, i)
      [] re = "IPV4_RE" -> Ipv4MatchEnd(s, i)

\* the positions where the pattern matches
MatchStarts(re, s) == {i \in 1..Len(s) : MatchEnd(re, s, i) > 0}

\* re.search(s) is not None
Search(re, s) == \E i \in 1..Len(s) : MatchEnd(re, s, i) > 0

Min(S) == CHOOSE i \in S : \A j \in S : i <= j

\* the one element of a singleton: The({e(x) : x \in {a}}) is e(a), with a
\* evaluated once
The(S) == CHOOSE x \in S : TRUE

\* ------------------------------------------------------------------------
\* Python values
\* ------------------------------------------------------------------------
StrV(s) == [t |-> "str", s |-> s]

NumV(s) == [t |-> "num", s |-> s]

NullV == [t |-> "null", s |-> <<>>]

\* isinstance(v, str)
IsStr(v) == v.t = "str"

\* str(v)
Str(v) == IF v.t = "null" THEN <<"N", "o", "n", "e">> ELSE v.s

\* bool(v): the empty string, 0 and None are false
Truthy(v) ==
    CASE v.t = "str" -> Len(v.s) > 0
      [] v.t = "num" -> v.s /= <<"0">>
      [] v.t = "null" -> FALSE

\* record.get(k) is truthy (an absent key gives None)
Has(record, k) == k \in DOMAIN record /\ Truthy(record[k])

\* ------------------------------------------------------------------------
\* Maskers (lines 13-75), on str(value)
\* ------------------------------------------------------------------------
REDACTED_PII == <<"[", "R", "E", "D", "A", "C", "T", "E", "D", "_", "P", "I", "I", "]">>

REDACTED_PII_ADDRESS ==
    <<"[", "R", "E", "D", "A", "C", "T", "E", "D", "_", "P", "I", "I", "_",
      "A", "D", "D", "R", "E", "S", "S", "]">>

Xs(n) == [k \in 1..n |-> "X"]

Max(a, b) == IF a >= b THEN a ELSE b

IsDigit(c) == c \in Digit

\* re.sub(r'\D', '', s)
OnlyDigits(s) == SelectSeq(s, IsDigit)

\* faulty variant of mask_phone: keeps three leading digits
MaskPhoneKeep3(s) ==
    LET d == OnlyDigits(s)
    IN IF Len(d) = 10 THEN SubSeq(d, 1, 3) \o Xs(5) \o SubSeq(d, 9, 10)
       ELSE REDACTED_PII

mask_phone(s) ==
    LET d == OnlyDigits(s)
    IN IF Len(d) = 10 THEN SubSeq(d, 1, 2) \o Xs(6) \o SubSeq(d, 9, 10)
       ELSE REDACTED_PII

mask_aadhar(s) ==
    LET d == OnlyDigits(s)
    IN IF Len(d) = 12 THEN SubSeq(d, 1, 4) \o Xs(4) \o SubSeq(d, 9, 12)
       ELSE REDACTED_PII

\* v = m.group(1) of PASSPORT_RE.search(s)
PassportMask(v) ==
    IF Len(v) >= 4 THEN <<v[1]>> \o Xs(Len(v) - 2) \o <<v[Len(v)]>>
    ELSE REDACTED_PII

mask_passport(s) ==
    IF Search("PASSPORT_RE", s)
    THEN The({PassportMask(SubSeq(s, i, PassportMatchEnd(s, i) - 1)) :
                 i \in {Min(MatchStarts("PASSPORT_RE", s))}})
    ELSE REDACTED_PII

\* faulty variant of the local-part mask: always three X
MaskLocalFixed3(local) ==
    IF Len(local) <= 2 THEN <<local[1], "X">>
    ELSE SubSeq(local, 1, 2) \o Xs(3)

\* lines 37-40 and 48-51: the user/local part as masked by mask_email and
\* mask_upi
MaskLocal(local) ==
    IF Len(local) <= 2 THEN <<local[1], "X">>
    ELSE SubSeq(local, 1, 2) \o Xs(Max(3, Len(local) - 2))

\* local, "@" and domain of the match of EMAIL_RE that starts at i
EmailMaskAt(s, i) ==
    MaskLocal(SubSeq(s, i, RunEnd(s, i, EmailLocalCls) - 1))
        \o <<"@">>
        \o SubSeq(s, RunEnd(s, i, EmailLocalCls) + 1, EmailMatchEnd(s, i) - 1)

mask_email(s) ==
    IF Search("EMAIL_RE", s)
    THEN The({EmailMaskAt(s, i) : i \in {Min(MatchStarts("EMAIL_RE", s))}})
    ELSE REDACTED_PII

\* user, "@" and host of the match of UPI_RE that starts at i
UpiMaskAt(s, i) ==
    MaskLocal(SubSeq(s, i, RunEnd(s, i, UpiUserCls) - 1))
        \o <<"@">>
        \o SubSeq(s, RunEnd(s, i, UpiUserCls) + 1, UpiMatchEnd(s, i) - 1)

mask_upi(s) ==
    IF Search("UPI_RE", s)
    THEN The({UpiMaskAt(s, i) : i \in {Min(MatchStarts("UPI_RE", s))}})
    ELSE REDACTED_PII

\* g = m.group(1) always splits into four parts; the last becomes XXX
IpMask(g) ==
    LET dots == {j \in 1..Len(g) : g[j] = "."}
    IN SubSeq(g, 1, CHOOSE j \in dots : \A k \in dots : k <= j) \o Xs(3)

mask_ip(s) ==
    IF Search("IPV4_RE", s)
    THEN The({IpMask(g) :
                 g \in {SubSeq(s, i, Ipv4MatchEnd(s, i) - 1) :
                           i \in {Min(MatchStarts("IPV4_RE", s))}}})
    ELSE REDACTED_PII

\* whitespace of str.strip() / str.split() among the characters used here
Space == {" "}

\* end of the token that starts at i
TokenEnd(s, i) ==
    LET stops == {j \in i..Len(s) : s[j] \in Space}
    IN IF stops = {} THEN Len(s) + 1
       ELSE CHOOSE j \in stops : \A k \in stops : j <= k

RECURSIVE SplitFrom(_, _)
SplitFrom(s, i) ==
    LET b == RunEnd(s, i, Space)
    IN IF b > Len(s) THEN <<>>
       ELSE <<SubSeq(s, b, TokenEnd(s, b) - 1)>> \o SplitFrom(s, TokenEnd(s, b))

\* s.split()
Split(s) == SplitFrom(s, 1)

\* s.strip()
Strip(s) ==
    LET keep == {j \in 1..Len(s) : s[j] \notin Space}
    IN IF keep = {} THEN <<>>
       ELSE SubSeq(s, CHOOSE j \in keep : \A k \in keep : j <= k,
                      CHOOSE j \in keep : \A k \in keep : k <= j)

RECURSIVE Join(_)
\* ' '.join(parts)
Join(parts) ==
    IF Len(parts) = 0 THEN <<>>
    ELSE IF Len(parts) = 1 THEN parts[1]
    ELSE parts[1] \o <<" ">> \o Join(Tail(parts))

MaskToken(p) == IF Len(p) <= 1 THEN <<"X">> ELSE <<p[1]>> \o Xs(Len(p) - 1)

mask_generic_name(s) ==
    LET parts == Split(Strip(s))
    IN IF Len(parts) >= 2
       THEN Join([k \in 1..Len(parts) |-> MaskToken(parts[k])])
       ELSE Strip(s)

\* the replacement each call of re.sub passes (lines 90, 95, 100, 112, 119,
\* 177-185); group(1) is the whole match for the four one-group patterns
Mask(re, g) ==
    CASE re = "PHONE_RE" -> mask_phone(g)
      [] re = "AADHAR_RE" -> mask_aadhar(g)
      [] re = "PASSPORT_RE" -> mask_passport(g)
      [] re = "EMAIL_RE" -> mask_email(g)
      [] re = "UPI_RE" -> mask_upi(g)
      [] re = "IPV4_RE" -> mask_ip(g)

RECURSIVE SubFrom(_, _, _)
SubFrom(re, s, i) ==
    IF i > Len(s) THEN <<>>
    ELSE The({IF e > 0
              THEN The({Mask(re, g) : g \in {SubSeq(s, i, e - 1)}})
                       \o SubFrom(re, s, e)
              ELSE <<s[i]>> \o SubFrom(re, s, i + 1) :
                 e \in {MatchEnd(re, s, i)}})

\* re.sub(lambda m: mask(m.group(..)), s): every non-overlapping match, left
\* to right, is replaced by its mask
Sub(re, s) == SubFrom(re, s, 1)

\* ------------------------------------------------------------------------
\* Field names
\* ------------------------------------------------------------------------
K_phone == <<"p", "h", "o", "n", "e">>

K_contact == <<"c", "o", "n", "t", "a", "c", "t">>

K_upi_id == <<"u", "p", "i", "_", "i", "d">>

K_first_name == <<"f", "i", "r", "s", "t", "_", "n", "a", "m", "e">>

K_last_name == <<"l", "a", "s", "t", "_", "n", "a", "m", "e">>

K_name == <<"n", "a", "m", "e">>

K_address == <<"a", "d", "d", "r", "e", "s", "s">>

K_city == <<"c", "i", "t", "y">>

K_pin_code == <<"p", "i", "n", "_", "c", "o", "d", "e">>

K_device_id == <<"d", "e", "v", "i", "c", "e", "_", "i", "d">>

K_ip_address == <<"i", "p", "_", "a", "d", "d", "r", "e", "s", "s">>

K_email == <<"e", "m", "a", "i", "l">>

K_note == <<"n", "o", "t", "e">>

\* ------------------------------------------------------------------------
\* detect_and_mask (lines 77-197), one operator per rule.  A rule maps the
\* locals of the call, loc = [redacted, standalone_found, email_present,
\* name_present, address_present, device_present, is_pii], to the locals
\* after it.  Every loop over record.items() or redacted.items() reads and
\* writes only the entry of its own key, so the iteration order does not
\* matter and a loop is one map over the keys.
\* ------------------------------------------------------------------------
HasX(s) == \E j \in 1..Len(s) : s[j] = "X"

\* line 78: redacted = dict(record); the flags start False
StartLocals(record) ==
    [redacted |-> record, standalone_found |-> FALSE, email_present |-> FALSE,
     name_present |-> FALSE, address_present |-> FALSE,
     device_present |-> FALSE, is_pii |-> FALSE]

\* faulty variant of the guard of rule 1: the pattern test is left out
PhoneFieldHitNoSearch(record, f) == Has(record, f)

\* lines 83-84
PhoneFieldHit(record, f) ==
    Has(record, f) /\ Search("PHONE_RE", Str(record[f]))

\* lines 81-86, rule 1
PhoneFieldsRule(record, loc) ==
    LET hit(k) == k \in {K_phone, K_contact} /\ PhoneFieldHit(record, k)
    IN [loc EXCEPT
          !.redacted = [k \in DOMAIN loc.redacted |->
                           IF hit(k) THEN StrV(mask_phone(Str(record[k])))
                           ELSE loc.redacted[k]],
          !.standalone_found = loc.standalone_found
                                  \/ \E k \in DOMAIN record : hit(k)]

\* lines 88-89: the guard of rule 2, on the value rule 1 left in redacted
PhoneAllHit(record, redacted, k) ==
    /\ IsStr(record[k])
    /\ Search("PHONE_RE", record[k].s)
    /\ (k \notin DOMAIN redacted \/ ~HasX(Str(redacted[k])))

\* lines 87-91, rule 2
PhoneAllRule(record, loc) ==
    LET hit(k) == PhoneAllHit(record, loc.redacted, k)
    IN [loc EXCEPT
          !.redacted = [k \in DOMAIN loc.redacted |->
                           IF hit(k) THEN StrV(Sub("PHONE_RE", record[k].s))
                           ELSE loc.redacted[k]],
          !.standalone_found = loc.standalone_found
                                  \/ \E k \in DOMAIN record : hit(k)]

\* lines 93-96 (AADHAR_RE) and 98-101 (PASSPORT_RE): the mask is computed
\* from the input value v, not from the current redacted value
PatternRule(re, record, loc) ==
    LET hit(k) == IsStr(record[k]) /\ Search(re, record[k].s)
    IN [loc EXCEPT
          !.redacted = [k \in DOMAIN loc.redacted |->
                           IF hit(k) THEN StrV(Sub(re, record[k].s))
                           ELSE loc.redacted[k]],
          !.standalone_found = loc.standalone_found
                                  \/ \E k \in DOMAIN record : hit(k)]

AadharRule(record, loc) == PatternRule("AADHAR_RE", record, loc)

PassportRule(record, loc) == PatternRule("PASSPORT_RE", record, loc)

\* v.split('@', 1)[1] for a v that contains "@"
AfterAt(s) ==
    LET ats == {j \in 1..Len(s) : s[j] = "@"}
        first == CHOOSE j \in ats : \A k \in ats : j <= k
    IN SubSeq(s, first + 1, Len(s))

\* lines 109-111
UpiScanHit(record, k) ==
    /\ IsStr(record[k])
    /\ \E j \in 1..Len(record[k].s) : record[k].s[j] = "@"
    /\ Search("UPI_RE", record[k].s)
    /\ \A j \in 1..Len(AfterAt(record[k].s)) : AfterAt(record[k].s)[j] /= "."

\* lines 103-113, rule 5
UpiRule(record, loc) ==
    IF Has(record, K_upi_id)
    THEN IF Search("UPI_RE", Str(record[K_upi_id]))
         THEN [loc EXCEPT
                 !.redacted = [loc.redacted EXCEPT
                                  ![K_upi_id] = StrV(mask_upi(Str(record[K_upi_id])))],
                 !.standalone_found = TRUE]
         ELSE loc
    ELSE [loc EXCEPT
            !.redacted = [k \in DOMAIN loc.redacted |->
                             IF UpiScanHit(record, k)
                             THEN StrV(Sub("UPI_RE", record[k].s))
                             ELSE loc.redacted[k]],
            !.standalone_found = loc.standalone_found
                                    \/ \E k \in DOMAIN record : UpiScanHit(record, k)]

\* line 117
EmailHit(record, k) == IsStr(record[k]) /\ Search("EMAIL_RE", record[k].s)

\* lines 115-119, rule 6
EmailRule(record, loc) ==
    [loc EXCEPT
       !.redacted = [k \in DOMAIN loc.redacted |->
                        IF EmailHit(record, k)
                        THEN StrV(Sub("EMAIL_RE", record[k].s))
                        ELSE loc.redacted[k]],
       !.email_present = \E k \in DOMAIN record : EmailHit(record, k)]

\* record.get('name') and len(str(record.get('name')).split()) >= 2
NameHasTwoTokens(record) ==
    Has(record, K_name) /\ Len(Split(Str(record[K_name]))) >= 2

BothNames(record) == Has(record, K_first_name) /\ Has(record, K_last_name)

\* line 122
NameCond(record) == BothNames(record) \/ NameHasTwoTokens(record)

\* lines 121-128, rule 7
NameRule(record, loc) ==
    IF NameCond(record)
    THEN [loc EXCEPT
            !.redacted = [k \in DOMAIN loc.redacted |->
                 IF \/ k \in {K_first_name, K_last_name} /\ BothNames(record)
                    \/ k = K_name /\ Has(record, K_name)
                 THEN StrV(mask_generic_name(Str(record[k])))
                 ELSE loc.redacted[k]],
            !.name_present = TRUE]
    ELSE loc

\* lines 131-133
AddressCond(record) ==
    /\ Has(record, K_address)
    /\ Has(record, K_city)
    /\ Has(record, K_pin_code)
    /\ Len(OnlyDigits(Str(record[K_pin_code]))) >= 5

\* line 136
MaskPin(s) == IF Len(s) > 3 THEN SubSeq(s, 1, 2) \o Xs(3) ELSE Xs(3)

\* lines 130-136, rule 8
AddressRule(record, loc) ==
    IF AddressCond(record)
    THEN [loc EXCEPT
            !.redacted = [k \in DOMAIN loc.redacted |->
                 IF k = K_address THEN StrV(REDACTED_PII_ADDRESS)
                 ELSE IF k = K_pin_code THEN StrV(MaskPin(Str(record[K_pin_code])))
                 ELSE loc.redacted[k]],
            !.address_present = TRUE]
    ELSE loc

\* lines 138-145, rule 9; re.sub(r'.', 'X', s) keeps the length
DeviceRule(record, loc) ==
    [loc EXCEPT
       !.redacted = [k \in DOMAIN loc.redacted |->
            IF k = K_device_id /\ Has(record, K_device_id)
            THEN StrV(Xs(Len(Str(record[K_device_id]))))
            ELSE IF k = K_ip_address /\ Has(record, K_ip_address)
            THEN StrV(mask_ip(Str(record[K_ip_address])))
            ELSE loc.redacted[k]],
       !.device_present = Has(record, K_device_id) \/ Has(record, K_ip_address)]

B2N(b) == IF b THEN 1 ELSE 0

\* lines 147-155
CombinatorialCount(loc) ==
    B2N(loc.name_present) + B2N(loc.email_present)
        + B2N(loc.address_present) + B2N(loc.device_present)

\* faulty variant of the verdict: one combinatorial flag is enough
VerdictRuleOneFlag(record, loc) ==
    [loc EXCEPT !.is_pii = loc.standalone_found \/ CombinatorialCount(loc) >= 1]

\* lines 157-158
VerdictRule(record, loc) ==
    [loc EXCEPT !.is_pii = loc.standalone_found \/ CombinatorialCount(loc) >= 2]

\* line 167
Lopsided(record) ==
    \/ Has(record, K_first_name) /\ ~Has(record, K_last_name)
    \/ Has(record, K_last_name) /\ ~Has(record, K_first_name)

\* faulty variant of the reconciliation pass: the email loop of lines
\* 161-164 is left out
ReconcileRuleNoEmail(record, loc) ==
    [loc EXCEPT
       !.redacted = [k \in DOMAIN loc.redacted |->
            IF k \in {K_first_name, K_last_name} /\ Lopsided(record)
            THEN record[k]
            ELSE IF /\ k = K_name
                    /\ Has(record, K_name)
                    /\ Len(Split(Str(record[K_name]))) < 2
            THEN record[k]
            ELSE loc.redacted[k]]]

\* lines 160-171: the reconciliation pass (runs when not is_pii)
ReconcileRule(record, loc) ==
    [loc EXCEPT
       !.redacted = [k \in DOMAIN loc.redacted |->
            IF k \in {K_first_name, K_last_name} /\ Lopsided(record)
            THEN record[k]
            ELSE IF /\ k = K_name
                    /\ Has(record, K_name)
                    /\ Len(Split(Str(record[K_name]))) < 2
            THEN record[k]
            ELSE IF EmailHit(record, k) THEN record[k]
            ELSE loc.redacted[k]]]

\* lines 176-185 for one value v: each "if" tests v, the value the field had
\* when the loop reached it, and assigns re.sub(..., v); a later assignment
\* replaces an earlier one
FinalizeStep(re, s, prev) == IF Search(re, s) THEN Sub(re, s) ELSE prev

FinalizeValue(v) ==
    IF ~IsStr(v) THEN v
    ELSE StrV(FinalizeStep("IPV4_RE", v.s,
                FinalizeStep("EMAIL_RE", v.s,
                  FinalizeStep("PASSPORT_RE", v.s,
                    FinalizeStep("AADHAR_RE", v.s,
                      FinalizeStep("PHONE_RE", v.s, v.s))))))

\* lines 173-185: the finalization pass (runs when is_pii)
FinalizeRule(record, loc) ==
    [loc EXCEPT
       !.redacted = [k \in DOMAIN loc.redacted |-> FinalizeValue(loc.redacted[k])]]

\* lines 187-197: every value of a parsed JSON payload is serializable, so
\* json.dumps(v) never raises and clean is a copy of redacted
CleanCopy(redacted) == [k \in DOMAIN redacted |-> redacted[k]]

\* the rules of lines 81-158, in program order
ScanOrder ==
    <<"phone_fields", "phone_all", "aadhar", "passport", "upi", "email",
      "name", "address", "device", "verdict">>

ApplyRule(rule, record, loc) ==
    CASE rule = "phone_fields" -> PhoneFieldsRule(record, loc)
      [] rule = "phone_all" -> PhoneAllRule(record, loc)
      [] rule = "aadhar" -> AadharRule(record, loc)
      [] rule = "passport" -> PassportRule(record, loc)
      [] rule = "upi" -> UpiRule(record, loc)
      [] rule = "email" -> EmailRule(record, loc)
      [] rule = "name" -> NameRule(record, loc)
      [] rule = "address" -> AddressRule(record, loc)
      [] rule = "device" -> DeviceRule(record, loc)
      [] rule = "verdict" -> VerdictRule(record, loc)

RECURSIVE RunRules(_, _, _)
RunRules(rules, record, loc) ==
    IF rules = <<>> THEN loc
    ELSE RunRules(Tail(rules), record, ApplyRule(Head(rules), record, loc))

\* the locals when the verdict is computed (lines 78-158)
ScanLocals(record) == RunRules(ScanOrder, record, StartLocals(record))

\* lines 160-185: reconciliation or finalization, by the verdict
AfterVerdict(record, scan) ==
    IF scan.is_pii THEN FinalizeRule(record, scan)
    ELSE ReconcileRule(record, scan)

\* detect_and_mask(record) as main calls it: (clean, bool(is_pii))
DetectAndMask(record) ==
    The({[clean |-> CleanCopy(fin.redacted), is_pii |-> fin.is_pii] :
            fin \in {AfterVerdict(record, scan) : scan \in {ScanLocals(record)}}})

\* ------------------------------------------------------------------------
\* json.loads and json.dumps on the payload texts of the batch (lines 222,
\* 225, 230).  A parsed value is [kind, keys, map, s]: a dict has its keys in
\* insertion order and its map; a number or string has its characters.
\* The grammar covers: null, a number, a string without escapes, [], {} and
\* an object of one member whose value is a string, a number or null; any
\* other text is a ValueError.
\* ------------------------------------------------------------------------
ParseFail == [ok |-> FALSE, kind |-> "none", keys |-> <<>>, map |-> <<>>, s |-> <<>>]

Parsed(kind, keys, map, s) ==
    [ok |-> TRUE, kind |-> kind, keys |-> keys, map |-> map, s |-> s]

EmptyDict == Parsed("dict", <<>>, <<>>, <<>>)

IsNumberText(t) ==
    /\ Len(t) >= 1
    /\ \A j \in 1..Len(t) : t[j] \in Digit
    /\ (Len(t) > 1 => t[1] /= "0")

\* "..." with no quote or backslash inside
IsStringText(t) ==
    /\ Len(t) >= 2
    /\ t[1] = "\""
    /\ t[Len(t)] = "\""
    /\ \A j \in 2..(Len(t) - 1) : t[j] \notin {"\"", "\\"}

Unquote(t) == SubSeq(t, 2, Len(t) - 1)

IsNullText(t) == t = <<"n", "u", "l", "l">>

\* a scalar member value
ScalarValue(t) ==
    IF IsStringText(t) THEN StrV(Unquote(t))
    ELSE IF IsNumberText(t) THEN NumV(t)
    ELSE NullV

IsScalarText(t) == IsStringText(t) \/ IsNumberText(t) \/ IsNullText(t)

\* the position of the ":" that ends the key of {"key":value}, 0 if none
MemberColon(t) ==
    LET cs == {j \in 3..(Len(t) - 1) :
                  t[j] = ":" /\ IsStringText(SubSeq(t, 2, j - 1))}
    IN IF cs = {} THEN 0 ELSE Min(cs)

IsMemberText(t) ==
    /\ Len(t) >= 2
    /\ t[1] = "{"
    /\ t[Len(t)] = "}"
    /\ MemberColon(t) > 0
    /\ IsScalarText(SubSeq(t, MemberColon(t) + 1, Len(t) - 1))

MemberKey(t) == Unquote(SubSeq(t, 2, MemberColon(t) - 1))

MemberValue(t) == ScalarValue(SubSeq(t, MemberColon(t) + 1, Len(t) - 1))

\* json.loads(t)
JsonLoads(t) ==
    IF IsNullText(t) THEN Parsed("null", <<>>, <<>>, <<>>)
    ELSE IF IsNumberText(t) THEN Parsed("num", <<>>, <<>>, t)
    ELSE IF IsStringText(t) THEN Parsed("str", <<>>, <<>>, Unquote(t))
    ELSE IF t = <<"[", "]">> THEN Parsed("list", <<>>, <<>>, <<>>)
    ELSE IF t = <<"{", "}">> THEN EmptyDict
    ELSE IF IsMemberText(t)
    THEN Parsed("dict", <<MemberKey(t)>>, MemberKey(t) :> MemberValue(t), <<>>)
    ELSE ParseFail

\* data_json_raw.replace("'", '"')
ReplaceQuotes(t) == [j \in 1..Len(t) |-> IF t[j] = "'" THEN "\"" ELSE t[j]]

\* json.dumps of one value (the characters used need no escape)
DumpsValue(v) ==
    CASE v.t = "str" -> <<"\"">> \o v.s \o <<"\"">>
      [] v.t = "num" -> v.s
      [] v.t = "null" -> <<"n", "u", "l", "l">>

RECURSIVE DumpsMembers(_, _)
DumpsMembers(keys, map) ==
    IF keys = <<>> THEN <<>>
    ELSE <<"\"">> \o Head(keys) \o <<"\"", ":", " ">> \o DumpsValue(map[Head(keys)])
         \o (IF Len(keys) > 1 THEN <<",", " ">> ELSE <<>>)
         \o DumpsMembers(Tail(keys), map)

\* json.dumps(d, ensure_ascii=False) of a dict
JsonDumps(keys, map) == <<"{">> \o DumpsMembers(keys, map) \o <<"}">>

\* str(is_pii)
StrBool(b) == IF b THEN <<"T", "r", "u", "e">> ELSE <<"F", "a", "l", "s", "e">>

\* ------------------------------------------------------------------------
\* Inputs: records with at most MaxFields fields, each field with a value
\* from a small set that covers matching, non-matching, non-string and empty
\* values
\* ------------------------------------------------------------------------
MaxFields == 3

Fields ==
    {K_phone, K_contact, K_upi_id, K_first_name, K_last_name, K_name,
     K_address, K_city, K_pin_code, K_device_id, K_ip_address, K_email, K_note}

FieldValues(k) ==
    CASE k = K_phone ->
        {StrV(<<"9", "8", "7", "6", "5", "4", "3", "2", "1", "0">>),
         StrV(<<"9", "8", "7", "6", "5", " ", "4", "3", "2", "1", "0">>),
         NumV(<<"9", "8", "7", "6", "5", "4", "3", "2", "1", "0">>)}
      [] k = K_contact ->
        {StrV(<<"9", "1", "2", "3", "4", "5", "6", "7", "8", "0">>)}
      [] k = K_upi_id ->
        {StrV(<<"j", "o", "@", "y", "b", "l">>),
         StrV(<<"a", "@", "b", ".", "c", "o">>)}
      [] k = K_first_name ->
        {StrV(<<"J", "o", "h", "n">>),
         StrV(<<>>)}
      [] k = K_last_name ->
        {StrV(<<"S", "m", "i", "t", "h">>)}
      [] k = K_name ->
        {StrV(<<"J", "o", "h", "n", " ", "S", "m", "i", "t", "h">>),
         StrV(<<"J", "o", "h", "n">>)}
      [] k = K_address ->
        {StrV(<<"1", "2", " ", "M", "G", " ", "R", "o", "a", "d">>)}
      [] k = K_city ->
        {StrV(<<"P", "u", "n", "e">>)}
      [] k = K_pin_code ->
        {StrV(<<"5", "6", "0", "0", "0", "1">>),
         StrV(<<"1", "2", "3">>)}
      [] k = K_device_id ->
        {StrV(<<"d", "e", "v", "-", "1", "2", "3", "4">>)}
      [] k = K_ip_address ->
        {StrV(<<"1", ".", "2", ".", "3", ".", "4">>)}
      [] k = K_email ->
        {StrV(<<"j", "o", "h", "n", ".", "s", "m", "i", "t", "h", "@", "e", "x", "a", "m", "p", "l", "e", ".", "c", "o", "m">>),
         StrV(<<"a", "@", "b", ".", "c", "o">>)}
      [] k = K_note ->
        {StrV(<<"h", "i">>),
         StrV(<<"X", " ", "9", "8", "7", "6", "5", "4", "3", "2", "1", "0">>),
         StrV(<<"c", "a", "l", "l", " ", "9", "8", "7", "6", "5", "4", "3", "2", "1", "0">>),
         StrV(<<"9", "8", "7", "6", "5", "4", "3", "2", "1", "0", " ", "a", "@", "b", ".", "c", "o">>),
         StrV(<<"9", "8", "7", "6", "5", "4", "3", "2", "1", "0", " ", "1", ".", "2", ".", "3", ".", "4">>),
         StrV(<<"1", "2", "3", "4", "5", "6", "7", "8", "9", "0", "1", "2">>),
         StrV(<<"P", "1", "2", "3", "4", "5", "6", "7">>),
         StrV(<<"j", "o", "@", "y", "b", "l">>),
         NullV}

RECURSIVE RecordsOver(_)
RecordsOver(S) ==
    IF S = {} THEN {<<>>}
    ELSE LET k == CHOOSE x \in S : TRUE
         IN {(k :> v) @@ r : v \in FieldValues(k), r \in RecordsOver(S \ {k})}

Records ==
    UNION {RecordsOver(S) : S \in {T \in SUBSET Fields : Cardinality(T) <= MaxFields}}

\* the batch: at most MaxRows rows; a row has no payload column (None) or a
\* payload text
MaxRows == 2

NoPayload == [present |-> FALSE, text |-> <<>>]

Payload(t) == [present |-> TRUE, text |-> t]

PayloadTexts ==
    {<<"{", "\"", "p", "h", "o", "n", "e", "\"", ":", "\"", "9", "8", "7", "6", "5", "4", "3", "2", "1", "0", "\"", "}">>,
     <<"{", "'", "p", "h", "o", "n", "e", "'", ":", "'", "9", "8", "7", "6", "5", "4", "3", "2", "1", "0", "'", "}">>,
     <<"{", "\"", "n", "a", "m", "e", "\"", ":", "\"", "J", "o", "h", "n", " ", "S", "m", "i", "t", "h", "\"", "}">>,
     <<"{", "\"", "n", "o", "t", "e", "\"", ":", "5", "}">>,
     <<"{", "}">>,
     <<"[", "]">>,
     <<"5">>,
     <<"\"", "h", "i", "\"">>,
     <<"n", "u", "l", "l">>,
     <<"o", "o", "p", "s">>,
     <<"{", "'", "a", "'">>}

Payloads == {NoPayload} \cup {Payload(t) : t \in PayloadTexts}

Batches == UNION {[1..n -> Payloads] : n \in 1..MaxRows}

\* ------------------------------------------------------------------------
\* State: the locals of one call of detect_and_mask, and the locals of main
\* ------------------------------------------------------------------------
VARIABLES
    record, redacted, standalone_found, email_present, name_present,
    address_present, device_present, is_pii, clean, pc,
    rows, idx, raw, parsed, row_result, rows_out, out_file, mpc

engine_vars ==
    <<record, redacted, standalone_found, email_present, name_present,
      address_present, device_present, is_pii, clean, pc>>

main_vars == <<rows, idx, raw, parsed, row_result, rows_out, out_file, mpc>>

vars == <<engine_vars, main_vars>>

\* the locals of the running call as one value, and their update
Locals ==
    [redacted |-> redacted, standalone_found |-> standalone_found,
     email_present |-> email_present, name_present |-> name_present,
     address_present |-> address_present, device_present |-> device_present,
     is_pii |-> is_pii]

SetLocals(loc) ==
    /\ redacted' = loc.redacted
    /\ standalone_found' = loc.standalone_found
    /\ email_present' = loc.email_present
    /\ name_present' = loc.name_present
    /\ address_present' = loc.address_present
    /\ device_present' = loc.device_present
    /\ is_pii' = loc.is_pii

\* redacted_json = {} and is_pii = False (lines 218-219)
NoResult == [keys |-> <<>>, map |-> <<>>, is_pii |-> FALSE]

MainIdle ==
    /\ rows = <<>>
    /\ idx = 0
    /\ raw = <<>>
    /\ parsed = ParseFail
    /\ row_result = NoResult
    /\ rows_out = <<>>
    /\ out_file = <<>>
    /\ mpc = "idle"

\* detect_and_mask is entered with some record (lines 77-79)
Init ==
    /\ record \in Records
    /\ redacted = record
    /\ standalone_found = FALSE
    /\ email_present = FALSE
    /\ name_present = FALSE
    /\ address_present = FALSE
    /\ device_present = FALSE
    /\ is_pii = FALSE
    /\ clean = <<>>
    /\ pc = "phone_fields"
    /\ MainIdle

RulePhoneFields ==
    /\ pc = "phone_fields"
    /\ SetLocals(PhoneFieldsRule(record, Locals))
    /\ pc' = "phone_all"
    /\ UNCHANGED <<record, clean, main_vars>>

RulePhoneAll ==
    /\ pc = "phone_all"
    /\ SetLocals(PhoneAllRule(record, Locals))
    /\ pc' = "aadhar"
    /\ UNCHANGED <<record, clean, main_vars>>

RuleAadhar ==
    /\ pc = "aadhar"
    /\ SetLocals(AadharRule(record, Locals))
    /\ pc' = "passport"
    /\ UNCHANGED <<record, clean, main_vars>>

RulePassport ==
    /\ pc = "passport"
    /\ SetLocals(PassportRule(record, Locals))
    /\ pc' = "upi"
    /\ UNCHANGED <<record, clean, main_vars>>

RuleUpi ==
    /\ pc = "upi"
    /\ SetLocals(UpiRule(record, Locals))
    /\ pc' = "email"
    /\ UNCHANGED <<record, clean, main_vars>>

RuleEmail ==
    /\ pc = "email"
    /\ SetLocals(EmailRule(record, Locals))
    /\ pc' = "name"
    /\ UNCHANGED <<record, clean, main_vars>>

RuleName ==
    /\ pc = "name"
    /\ SetLocals(NameRule(record, Locals))
    /\ pc' = "address"
    /\ UNCHANGED <<record, clean, main_vars>>

RuleAddress ==
    /\ pc = "address"
    /\ SetLocals(AddressRule(record, Locals))
    /\ pc' = "device"
    /\ UNCHANGED <<record, clean, main_vars>>

RuleDevice ==
    /\ pc = "device"
    /\ SetLocals(DeviceRule(record, Locals))
    /\ pc' = "verdict"
    /\ UNCHANGED <<record, clean, main_vars>>

Verdict ==
    /\ pc = "verdict"
    /\ SetLocals(VerdictRule(record, Locals))
    /\ pc' = "branch"
    /\ UNCHANGED <<record, clean, main_vars>>

\* line 160: if not is_pii
Reconcile ==
    /\ pc = "branch"
    /\ ~is_pii
    /\ SetLocals(ReconcileRule(record, Locals))
    /\ pc' = "return"
    /\ UNCHANGED <<record, clean, main_vars>>

\* line 173: if is_pii
Finalize ==
    /\ pc = "branch"
    /\ is_pii
    /\ SetLocals(FinalizeRule(record, Locals))
    /\ pc' = "return"
    /\ UNCHANGED <<record, clean, main_vars>>

\* lines 187-195: return clean, bool(is_pii)
Return ==
    /\ pc = "return"
    /\ clean' = CleanCopy(redacted)
    /\ pc' = "done"
    /\ UNCHANGED <<record, redacted, standalone_found, email_present,
                   name_present, address_present, device_present, is_pii,
                   main_vars>>

\* ------------------------------------------------------------------------
\* main (lines 199-239): the loop over the rows of the input file
\* ------------------------------------------------------------------------
EngineIdle ==
    /\ record = <<>>
    /\ redacted = <<>>
    /\ standalone_found = FALSE
    /\ email_present = FALSE
    /\ name_present = FALSE
    /\ address_present = FALSE
    /\ device_present = FALSE
    /\ is_pii = FALSE
    /\ clean = <<>>
    /\ pc = "idle"

\* lines 211-213: the reader is open on some batch, rows_out = []
MainInit ==
    /\ rows \in Batches
    /\ idx = 1
    /\ raw = <<>>
    /\ parsed = ParseFail
    /\ row_result = NoResult
    /\ rows_out = <<>>
    /\ out_file = <<>>
    /\ mpc = "loop"
    /\ EngineIdle

\* lines 214-219: next row; without a payload the row is {} and False
ReadRow ==
    /\ mpc = "loop"
    /\ idx <= Len(rows)
    /\ IF rows[idx].present
       THEN /\ raw' = rows[idx].text
            /\ mpc' = "loads"
            /\ UNCHANGED row_result
       ELSE /\ raw' = <<>>
            /\ row_result' = NoResult
            /\ mpc' = "append"
    /\ UNCHANGED <<rows, idx, parsed, rows_out, out_file, engine_vars>>

\* lines 221-223: parsed = json.loads(data_json_raw)
LoadsStrict ==
    /\ mpc = "loads"
    /\ IF JsonLoads(raw).ok
       THEN parsed' = JsonLoads(raw) /\ mpc' = "detect"
       ELSE parsed' = parsed /\ mpc' = "retry"
    /\ UNCHANGED <<rows, idx, raw, row_result, rows_out, out_file, engine_vars>>

\* lines 224-227: the retry with double quotes, else parsed = {}
LoadsRetry ==
    /\ mpc = "retry"
    /\ parsed' = IF JsonLoads(ReplaceQuotes(raw)).ok
                 THEN JsonLoads(ReplaceQuotes(raw))
                 ELSE EmptyDict
    /\ mpc' = "detect"
    /\ UNCHANGED <<rows, idx, raw, row_result, rows_out, out_file, engine_vars>>

\* lines 228-229 on a dict
DetectReturns ==
    /\ mpc = "detect"
    /\ parsed.kind = "dict"
    /\ row_result' = The({[keys |-> parsed.keys, map |-> r.clean, is_pii |-> r.is_pii] :
                             r \in {DetectAndMask(parsed.map)}})
    /\ mpc' = "append"
    /\ UNCHANGED <<rows, idx, raw, parsed, rows_out, out_file, engine_vars>>

\* line 228 on a list, number, string or None: dict(record) (line 78) or
\* record.items() (line 87) raises; nothing in main catches it, so the
\* process ends with rows_out unwritten
DetectRaises ==
    /\ mpc = "detect"
    /\ parsed.kind /= "dict"
    /\ mpc' = "crashed"
    /\ UNCHANGED <<rows, idx, raw, parsed, row_result, rows_out, out_file, engine_vars>>

\* line 230
AppendRow ==
    /\ mpc = "append"
    /\ rows_out' = Append(rows_out,
                      [record_id |-> idx,
                       redacted_data_json |-> JsonDumps(row_result.keys, row_result.map),
                       is_pii |-> StrBool(row_result.is_pii)])
    /\ idx' = idx + 1
    /\ mpc' = "loop"
    /\ UNCHANGED <<rows, raw, parsed, row_result, out_file, engine_vars>>

\* lines 232-239: after the last row the output file is written
WriteOutput ==
    /\ mpc = "loop"
    /\ idx > Len(rows)
    /\ out_file' = rows_out
    /\ mpc' = "done"
    /\ UNCHANGED <<rows, idx, raw, parsed, row_result, rows_out, engine_vars>>

MainNext ==
    \/ ReadRow
    \/ LoadsStrict
    \/ LoadsRetry
    \/ DetectReturns
    \/ DetectRaises
    \/ AppendRow
    \/ WriteOutput

MainSpec == MainInit /\ [][MainNext]_vars

Next ==
    \/ RulePhoneFields
    \/ RulePhoneAll
    \/ RuleAadhar
    \/ RulePassport
    \/ RuleUpi
    \/ RuleEmail
    \/ RuleName
    \/ RuleAddress
    \/ RuleDevice
    \/ Verdict
    \/ Reconcile
    \/ Finalize
    \/ Return

Spec == Init /\ [][Next]_vars

\* ------------------------------------------------------------------------
\* Properties
\* ------------------------------------------------------------------------
\* the values the properties name
JOHN_SMITH == <<"J", "o", "h", "n", " ", "S", "m", "i", "t", "h">>

JOHN_EMAIL == <<"j", "o", "h", "n", ".", "s", "m", "i", "t", "h", "@", "e", "x", "a", "m", "p", "l", "e", ".", "c", "o", "m">>

JXXX_SXXXX == <<"J", "X", "X", "X", " ", "S", "X", "X", "X", "X">>

JO3X_EMAIL == <<"j", "o", "X", "X", "X", "@", "e", "x", "a", "m", "p", "l", "e", ".", "c", "o", "m">>

JO8X_EMAIL == <<"j", "o", "X", "X", "X", "X", "X", "X", "X", "X", "@", "e", "x", "a", "m", "p", "l", "e", ".", "c", "o", "m">>

Decided == pc \in {"branch", "return", "done"}

Returned == pc = "done"

Patterns ==
    {"PHONE_RE", "AADHAR_RE", "PASSPORT_RE", "EMAIL_RE", "UPI_RE", "IPV4_RE"}

\* the four combinatorial flags as functions of the input record
NamePresent ==
    \/ Has(record, K_first_name) /\ Has(record, K_last_name)
    \/ Has(record, K_name) /\ Len(Split(Str(record[K_name]))) >= 2

EmailPresent ==
    \E k \in DOMAIN record : IsStr(record[k]) /\ Search("EMAIL_RE", record[k].s)

AddressPresent ==
    /\ Has(record, K_address)
    /\ Has(record, K_city)
    /\ Has(record, K_pin_code)
    /\ Len(OnlyDigits(Str(record[K_pin_code]))) >= 5

DevicePresent == Has(record, K_device_id) \/ Has(record, K_ip_address)

FlagCount ==
    B2N(NamePresent) + B2N(EmailPresent) + B2N(AddressPresent) + B2N(DevicePresent)

\* C1: once the verdict is computed, it is true exactly when a standalone
\* identifier was found or at least two of the four combinatorial flags hold
\* for the record ("present" is Python truthiness: not None, "" or 0)
C1_VerdictIsStandaloneOrTwoFlags ==
    Decided => (is_pii <=> (standalone_found \/ FlagCount >= 2))

\* C1: a record with no standalone identifier and exactly two combinatorial
\* flags has been returned with PII=true
C1_Witness ==
    /\ Returned
    /\ ~standalone_found
    /\ FlagCount = 2
    /\ is_pii

\* C2: every record with a string value that contains a word-bounded run of
\* 10 digits is marked standalone and gets the verdict PII=true
C2_TenDigitRunIsStandalone ==
    Returned =>
        \A k \in DOMAIN record :
            (IsStr(record[k]) /\ Search("PHONE_RE", record[k].s))
                => (standalone_found /\ is_pii)

\* C3: no record halts the batch: the loop never ends in an uncaught
\* exception, it has appended one row per record read, the file written at
\* the end has one row per input row, and a row whose payload parses on
\* neither attempt is {} with verdict False
C3_Unparsable(i) ==
    /\ rows[i].present
    /\ ~JsonLoads(rows[i].text).ok
    /\ ~JsonLoads(ReplaceQuotes(rows[i].text)).ok

C3_NoRecordHaltsBatch ==
    /\ mpc /= "crashed"
    /\ (mpc = "loop" => Len(rows_out) = idx - 1)
    /\ (mpc = "done" => Len(out_file) = Len(rows))
    /\ \A i \in 1..Len(rows_out) :
           C3_Unparsable(i) =>
               /\ rows_out[i].redacted_data_json = <<"{", "}">>
               /\ rows_out[i].is_pii = <<"F", "a", "l", "s", "e">>

\* a phone or contact field that is a string of exactly 10 digits
TenDigitString(k) ==
    /\ k \in DOMAIN record
    /\ IsStr(record[k])
    /\ Len(record[k].s) = 10
    /\ \A j \in 1..10 : record[k].s[j] \in Digit

FirstTwoSixXLastTwo(s) ==
    <<s[1], s[2], "X", "X", "X", "X", "X", "X", s[9], s[10]>>

\* C4: a phone or contact field of exactly 10 digits is masked by rule 1 to
\* its first 2 digits, six X and its last 2 digits; no later rule nor the
\* finalization changes that value; the verdict is true and the returned
\* record holds the masked value
C4_PhoneMaskedOnce ==
    \A k \in {K_phone, K_contact} :
        TenDigitString(k) =>
            /\ (pc /= "phone_fields"
                    => redacted[k] = StrV(FirstTwoSixXLastTwo(record[k].s)))
            /\ (Decided => is_pii)
            /\ (Returned => clean[k] = StrV(FirstTwoSixXLastTwo(record[k].s)))

\* C4: the record phone = "9876543210" has been returned as "98XXXXXX10"
C4_Witness ==
    /\ Returned
    /\ TenDigitString(K_phone)
    /\ is_pii
    /\ clean[K_phone] = StrV(<<"9", "8", "X", "X", "X", "X", "X", "X", "1", "0">>)

JohnSmithAndEmail ==
    /\ K_name \in DOMAIN record
    /\ K_email \in DOMAIN record
    /\ record[K_name] = StrV(JOHN_SMITH)
    /\ record[K_email] = StrV(JOHN_EMAIL)
    /\ ~standalone_found

\* C5 as stated: name "John Smith" with email "john.smith@example.com" and no
\* standalone identifier returns PII=true, name "JXXX SXXXX" and email
\* "joXXX@example.com"
C5_EmailBecomesJoXXX ==
    (Returned /\ JohnSmithAndEmail) =>
        /\ is_pii
        /\ clean[K_name] = StrV(JXXX_SXXXX)
        /\ clean[K_email] = StrV(JO3X_EMAIL)

\* C5 amended: the same record returns PII=true, name "JXXX SXXXX" and email
\* "joXXXXXXXX@example.com": every character of the local part after the
\* first two becomes an X
C5_EmailKeepsLocalLength ==
    (Returned /\ JohnSmithAndEmail) =>
        /\ is_pii
        /\ clean[K_name] = StrV(JXXX_SXXXX)
        /\ clean[K_email] = StrV(JO8X_EMAIL)

\* C5: the record has been returned with the masked name and email
C5_Witness ==
    /\ Returned
    /\ JohnSmithAndEmail
    /\ is_pii
    /\ clean[K_email] = StrV(JO8X_EMAIL)

\* C6: a record whose only signal is a name of two or more tokens returns
\* PII=false with the name equal to the input value
C6_NameOnlyIsRestored ==
    (/\ Returned
     /\ Has(record, K_name)
     /\ Len(Split(Str(record[K_name]))) >= 2
     /\ ~standalone_found
     /\ FlagCount = 1) =>
        /\ ~is_pii
        /\ clean[K_name] = record[K_name]

\* C7: a record with address, city and a pin_code of at least 5 digits and no
\* other signal returns PII=false with the address equal to the input value
C7_AddressOnlyIsNotRedacted ==
    (/\ Returned
     /\ AddressPresent
     /\ ~standalone_found
     /\ FlagCount = 1) =>
        /\ ~is_pii
        /\ clean[K_address] = record[K_address]

\* no recognizer pattern matches the value (a non-string as str(value), the
\* form rule 1 and the upi_id rule test)
NoPatternMatches(v) == \A re \in Patterns : ~Search(re, Str(v))

\* the field is rewritten by a targeted known-field rule (name, address and
\* pin_code, device_id and ip_address)
TargetedRewrite(k) ==
    \/ /\ k \in {K_first_name, K_last_name}
       /\ Has(record, K_first_name)
       /\ Has(record, K_last_name)
    \/ k = K_name /\ NamePresent /\ Has(record, K_name)
    \/ k \in {K_address, K_pin_code} /\ AddressPresent
    \/ k \in {K_device_id, K_ip_address} /\ Has(record, k)

UntouchedField(k) == NoPatternMatches(record[k]) /\ ~TargetedRewrite(k)

\* C8: the returned record has the fields of the input, and every field whose
\* value matches no recognizer pattern and that no targeted rule rewrites has
\* exactly its input value, whatever the verdict
C8_UntouchedFieldsUnchanged ==
    Returned =>
        /\ DOMAIN clean = DOMAIN record
        /\ \A k \in DOMAIN record : UntouchedField(k) => clean[k] = record[k]

\* C8: a PII record has been returned with one field masked and another,
\* untouched one, unchanged
C8_Witness ==
    /\ Returned
    /\ is_pii
    /\ \E k \in DOMAIN record : UntouchedField(k) /\ clean[k] = record[k]
    /\ \E k \in DOMAIN record : clean[k] /= record[k]

\* C9: in a record returned with PII=true no string value still matches the
\* phone, national-ID, passport or IPv4 pattern
C9_NoIdentifierSurvives ==
    (Returned /\ is_pii) =>
        \A k \in DOMAIN clean :
            IsStr(clean[k]) =>
                \A re \in {"PHONE_RE", "AADHAR_RE", "PASSPORT_RE", "IPV4_RE"} :
                    ~Search(re, clean[k].s)

\* C10: a record returned with PII=false has the input value in every field
\* whose input string matches the email pattern; and while the verdict is
\* true no step puts the input value back into such a field that the scan
\* masked
C10_EmailRoundTrip ==
    [][/\ (pc' = "done" /\ ~is_pii')
            => \A k \in DOMAIN record' :
                   EmailHit(record', k) => clean'[k] = record'[k]
       /\ (pc = "branch" /\ is_pii)
            => \A k \in DOMAIN record :
                   (EmailHit(record, k) /\ redacted[k] /= record[k])
                       => redacted'[k] /= record[k]]_vars

\* C10: a record with an email field has been returned with PII=false and
\* the field, which the scan would mask to another value, as in the input
C10_Witness ==
    /\ Returned
    /\ ~is_pii
    /\ \E k \in DOMAIN record :
           /\ EmailHit(record, k)
           /\ Sub("EMAIL_RE", record[k].s) /= record[k].s
           /\ clean[k] = record[k]

====
